---- MODULE Spec2Model ----
(***************************************************************************)
(* Device preparation of btrfs-progs as embedded in partclone:             *)
(* src/btrfs/common/device-utils.c.  The module models                     *)
(*   discard_range, device_discard_blocks, device_zero_blocks,             *)
(*   zero_dev_clamped, btrfs_wipe_existing_sb, btrfs_device_size and       *)
(*   btrfs_prepare_device                                                  *)
(* as one state machine.  A harness variable, entry, says which function   *)
(* the caller invoked: btrfs_prepare_device, device_discard_blocks or      *)
(* zero_dev_clamped.                                                       *)
(*                                                                         *)
(* Units.  Device offsets and sizes are counted in blocks of 4096 bytes    *)
(* (BTRFS_SUPER_INFO_SIZE), because the third superblock mirror lies at    *)
(* 256 GiB, beyond the integers of the model checker.  Every constant of   *)
(* the code that is an offset or a size is a multiple of 4096.  The        *)
(* length of a signature (the wiper's len) is counted in bytes.            *)
(*                                                                         *)
(* Integer widths.  off_t, ssize_t and loff_t are signed 64 bit, u64 and   *)
(* size_t unsigned 64 bit.  A value of the model is the signed reading of  *)
(* the 64 bit pattern; MinU64 compares two patterns as min_t(u64, ..)      *)
(* does.  A size_t that the model holds as a negative number stands for    *)
(* the wrapped value 2^64 + n.  Inputs are bounded so that no signed       *)
(* addition overflows.                                                     *)
(*                                                                         *)
(* The build modelled is the one without __sparc__ (lines 102-106 are      *)
(* compiled out).  PREP_DEVICE_VERBOSE only prints and is left out.        *)
(***************************************************************************)
EXTENDS Integers, Sequences, FiniteSets, TLC

VARIABLES
    entry,            \* the function the caller invoked
    pc,               \* position in the invoked function
    st,               \* what fstat and the size query report for fd
    max_block_count,  \* argument of btrfs_prepare_device
    opflags,          \* argument of btrfs_prepare_device (set of flags)
    args,             \* arguments of a direct call: [start, len, dev_size]
    block_count,      \* local of btrfs_prepare_device
    zinfo,            \* local pointer of btrfs_prepare_device / argument
    zalloc,           \* the zone info object: "none", "live" or "freed"
    nfree,            \* number of times the zone info object was freed
    ret,              \* local of btrfs_prepare_device
    i,                \* local of btrfs_prepare_device
    d_start,          \* parameter start of device_discard_blocks
    d_len,            \* parameter len of device_discard_blocks
    block_count_ret,  \* the caller's *block_count_ret
    bcr_set,          \* whether *block_count_ret was assigned
    retval,           \* value returned by the invoked function (at "done")
    probe,            \* what the blkid probe reported to the wiper
    run,              \* 1 in the caller's first call, 2 in a repeated call
    first,            \* what the first call returned, once it is repeated
    ops               \* the calls made on the device, in order

vars == <<entry, pc, st, max_block_count, opflags, args, block_count, zinfo,
          zalloc, nfree, ret, i, d_start, d_len, block_count_ret, bcr_set,
          retval, probe, run, first, ops>>

----------------------------------------------------------------------------
(* Program constants, in blocks of 4096 bytes unless said otherwise *)

SZ_1G == 262144
ZERO_DEV_BYTES == 512
BTRFS_SUPER_INFO_SIZE == 1
BTRFS_SUPER_MIRROR_MAX == 3
ENOMEM == 12
EIO == 5
EOPNOTSUPP == 95
\* sizeof(buf) of the wiper, in bytes
BUFSIZ == 8192

(* Bounds of the model *)

\* device sizes reach MaxGiB GiB (and one size past the last mirror)
MaxGiB == 2
\* direct calls of zero_dev_clamped draw start, len from -MaxOff..MaxOff
MaxOff == 3
\* direct calls of device_discard_blocks draw len up to MaxChunks chunks
MaxChunks == 2

Max(a, b) == IF a > b THEN a ELSE b
Min(a, b) == IF a < b THEN a ELSE b

\* a < b for the 64 bit patterns read as unsigned
LessU64(a, b) == IF (a < 0) = (b < 0) THEN a < b ELSE b < 0
\* min_t(u64, a, b), the result read back as signed
MinU64(a, b) == IF LessU64(a, b) THEN a ELSE b

\* one entry of the log of device calls
Op(op, a, b, res) == [op |-> op, a |-> a, b |-> b, res |-> res]

NoZinfo == [model |-> "NULL", zone_size |-> 0, seq_from |-> 0]

\* btrfs_sb_offset(mirror): 64 KiB, 64 MiB, 256 GiB
btrfs_sb_offset(mirror) ==
    IF mirror = 0 THEN 16 ELSE IF mirror = 1 THEN 16384 ELSE 67108864

\* zone size handed out by the zone info provider: 256 MiB
ZoneBlocks == SZ_1G \div 4

----------------------------------------------------------------------------
(* The primitives.  Each yields the set of its possible outcomes           *)
(* [ret |-> value returned, log |-> device calls made].                    *)

\* discard_range: one BLKDISCARD ioctl; returns errno when it fails
discard_range(start, len) ==
    { [ret |-> r, log |-> <<Op("discard", start, len, r)>>] :
        r \in {0, EOPNOTSUPP} }

\* a chunk size that is not cut to what is left of the range
chunk_size_fixed(len) == SZ_1G

\* chunk_size of device_discard_blocks, line 59
chunk_size(len) == Min(len, SZ_1G)

\* what pwrite may return for a request of len > 0 or len = 0
PwriteResults(len) == IF len = 0 THEN {0} ELSE {len, len - 1, -1}

\* what malloc(len) may return: NULL (FALSE) or a buffer (TRUE).  For
\* len = 0 the result is implementation-defined; a len that wrapped
\* (negative in the model) exceeds the address space.
MallocResults(len) == IF len < 0 THEN {FALSE} ELSE {FALSE, TRUE}

\* device_zero_blocks: malloc, memset, one pwrite, free
device_zero_blocks(start, len) ==
    { IF ~buf
        THEN [ret |-> -ENOMEM,
              log |-> <<Op("device_zero_blocks", start, len, -ENOMEM)>>]
        ELSE LET r == IF written # len THEN -EIO ELSE 0
             IN  [ret |-> r,
                  log |-> <<Op("pwrite", start, len, written),
                            Op("device_zero_blocks", start, len, r)>>] :
        buf \in MallocResults(len), written \in PwriteResults(len) }

\* zero_zone_blocks (kernel-shared/zoned.c): zeroes the conventional zones
\* of the range, zone by zone; nothing to do for an empty range
zero_zone_blocks(zi, start, len) ==
    { [ret |-> r, log |-> <<Op("zero_zone_blocks", start, len, r)>>] :
        r \in (IF len = 0 THEN {0} ELSE IF len < 0 THEN {-EIO} ELSE {0, -EIO}) }

\* a range that is passed on as requested
clamp_range_unclamped(start, len, dev_size) == [start |-> start, len |-> len]

\* the range zero_dev_clamped computes: [start, start + len) as passed on
clamp_range(start, len, dev_size) ==
    LET end == Max(start, start + len)
        s   == MinU64(start, dev_size)
        e   == MinU64(end, dev_size)
    IN  [start |-> s, len |-> e - s]

zero_dev_clamped(zi, start, len, dev_size) ==
    LET r == clamp_range(start, len, dev_size)
    IN  IF zi.model # "NULL" /\ zi.model = "ZONED_HOST_MANAGED"
          THEN zero_zone_blocks(zi, r.start, r.len)
          ELSE device_zero_blocks(r.start, r.len)

\* zone_is_sequential (kernel-shared/zoned.h)
zone_is_sequential(zi, offset) ==
    IF zi.model = "NULL" \/ zi.model = "ZONED_NONE"
      THEN FALSE
      ELSE (offset \div zi.zone_size) >= zi.seq_from

\* the wiper has not run
NoProbe == [kind |-> "none", off |-> 0, len |-> 0]

\* what the blkid probe may report for a device of the given size:
\* the probe cannot be created, cannot be attached, finds no signature,
\* or finds one at block off with a magic of len bytes
ProbeResults(size) ==
    { [kind |-> k, off |-> 0, len |-> 0] : k \in {"noprobe", "noattach", "nosig"} }
    \cup { [kind |-> "sig", off |-> o, len |-> l] :
              o \in {x \in {0, 16, ZoneBlocks + 16} : x < size},
              l \in {8, BUFSIZ + 8} }

\* a wiper that returns without flushing
wipe_flush_missing == <<>>

\* line 176: fsync(fd), its result ignored
wipe_flush == <<Op("fsync", 0, 0, 0)>>

\* a wiper that writes the whole signature length
wipe_len_uncapped(len) == len

\* lines 152-153: the length is capped to sizeof(buf)
wipe_len(len) == IF len > BUFSIZ THEN BUFSIZ ELSE len

\* btrfs_wipe_existing_sb, given what the probe reports
btrfs_wipe_existing_sb(zi, pr) ==
    IF pr.kind = "noprobe" \/ pr.kind = "noattach"
      THEN { [ret |-> -1, log |-> <<Op("wipe", 0, 0, -1)>>] }
    ELSE IF pr.kind = "nosig"
      THEN { [ret |-> 1, log |-> <<Op("wipe", 0, 0, 1)>>] }
    ELSE LET len == wipe_len(pr.len)
             offset == pr.off
         IN  IF ~zone_is_sequential(zi, offset)
               THEN { LET r == IF w < 0 THEN -1 ELSE IF w # len THEN -1 ELSE w
                      IN  [ret |-> r,
                           log |-> <<Op("sig_pwrite", offset, len, w)>>
                                   \o wipe_flush
                                   \o <<Op("wipe", offset, len, r)>>] :
                      w \in PwriteResults(len) }
               ELSE { LET r == IF z < 0 THEN -1 ELSE z
                      IN  [ret |-> r,
                           log |-> <<Op("reset_dev_zone",
                                        offset \div zi.zone_size, 0, z)>>
                                   \o wipe_flush
                                   \o <<Op("wipe", offset, len, r)>>] :
                      z \in {0, -1} }

\* btrfs_device_size
btrfs_device_size(s) ==
    IF s.mode = "REG" THEN s.st_size
    ELSE IF s.mode # "BLK" THEN 0
    ELSE IF s.ioctl_ok THEN s.blk_size
    ELSE 0

\* btrfs_get_zone_info (kernel-shared/zoned.c): an error, no zone info, or
\* a freshly allocated zone info
ZoneInfoResults ==
    { [ret |-> r, zinfo |-> NoZinfo] : r \in {-1, 0} }
    \cup { [ret |-> 0,
            zinfo |-> [model |-> m, zone_size |-> ZoneBlocks, seq_from |-> k]] :
              m \in {"ZONED_NONE", "ZONED_HOST_AWARE", "ZONED_HOST_MANAGED"},
              k \in {0, 1} }

\* free(zinfo): the new allocation state and free count
FreeState(za) == IF za = "none" THEN "none" ELSE "freed"
FreeCount(za, n) == IF za = "none" THEN n ELSE n + 1

----------------------------------------------------------------------------
(* Inputs *)

Flags == {"ZONED", "DISCARD", "ZERO_END"}

\* device sizes in blocks: empty, below and at the first mirror, below, at
\* and above the 2 MiB boot area, past the second mirror, whole GiB and
\* GiB plus a remainder, and past the third mirror
Sizes ==
    {0, 1, 16, 17, 300, 512, 513, 16385}
    \cup { g * SZ_1G + r : g \in 1..MaxGiB, r \in {0, 100} }
    \cup { btrfs_sb_offset(2) + 1 }

Stat(ok, mode, size, ioctl_ok, blk) ==
    [fstat_ok |-> ok, mode |-> mode, st_size |-> size,
     ioctl_ok |-> ioctl_ok, blk_size |-> blk]

\* what fstat and BLKGETSIZE64 may report
Stats ==
    { Stat(FALSE, "REG", 0, FALSE, 0), Stat(TRUE, "CHR", 0, FALSE, 0),
      Stat(TRUE, "BLK", 0, FALSE, 0) }
    \cup { Stat(TRUE, "REG", s, FALSE, 0) : s \in Sizes }
    \cup { Stat(TRUE, "BLK", 0, TRUE, s) : s \in {0, 1000, MaxGiB * SZ_1G} }

MaxBlockCounts == {0, 1, 600, SZ_1G}

NoArgs == [start |-> 0, len |-> 0, dev_size |-> 0]

\* no call has been repeated
NoFirst == [retval |-> 0, count |-> 0, nops |-> 0]

Locals ==
    /\ block_count = 0
    /\ zalloc = "none"
    /\ nfree = 0
    /\ ret = 0
    /\ i = 0
    /\ block_count_ret = 0
    /\ bcr_set = FALSE
    /\ retval = 0
    /\ probe = NoProbe
    /\ run = 1
    /\ first = NoFirst
    /\ ops = <<>>

\* the caller invokes btrfs_prepare_device(fd, file, &count, max, opflags)
InitPrepare ==
    /\ entry = "prepare"
    /\ pc = "fstat"
    /\ st \in Stats
    /\ max_block_count \in MaxBlockCounts
    /\ opflags \in SUBSET Flags
    /\ args = NoArgs
    /\ zinfo = NoZinfo
    /\ d_start = 0
    /\ d_len = 0
    /\ Locals

\* the caller invokes device_discard_blocks(fd, start, len)
InitDiscard ==
    /\ entry = "discard"
    /\ pc = "discard_loop"
    /\ st = Stat(TRUE, "BLK", 0, TRUE, 0)
    /\ max_block_count = 0
    /\ opflags = {}
    /\ \E s \in {0, 5, SZ_1G - 1},
          l \in { k * SZ_1G + r : k \in 0..MaxChunks, r \in {0, 1, SZ_1G - 1} } :
          /\ args = [start |-> s, len |-> l, dev_size |-> 0]
          /\ d_start = s
          /\ d_len = l
    /\ zinfo = NoZinfo
    /\ Locals

\* zero_dev_clamped(fd, zinfo, start, len, dev_size) on arbitrary arguments
InitClamp ==
    /\ entry = "clamp"
    /\ pc = "clamp_call"
    /\ st = Stat(TRUE, "REG", 0, FALSE, 0)
    /\ max_block_count = 0
    /\ opflags = {}
    /\ args \in [start : -MaxOff..MaxOff, len : -MaxOff..MaxOff,
                  dev_size : 0..MaxOff]
    /\ zinfo \in { NoZinfo,
                    [model |-> "ZONED_HOST_MANAGED", zone_size |-> ZoneBlocks,
                     seq_from |-> 1] }
    /\ d_start = 0
    /\ d_len = 0
    /\ Locals

Init == InitPrepare \/ InitDiscard \/ InitClamp

----------------------------------------------------------------------------
(* btrfs_prepare_device, one action per step *)

inputs == <<entry, st, max_block_count, opflags, args, run, first>>
out == <<block_count_ret, bcr_set, probe>>
owned == <<zinfo, zalloc, nfree>>
dloc == <<d_start, d_len>>

\* "return 1" before anything was acquired
Return1 ==
    /\ retval' = 1
    /\ pc' = "done"

\* lines 198-202
prepare_fstat ==
    /\ pc = "fstat"
    /\ IF ~st.fstat_ok
         THEN Return1
         ELSE pc' = "size" /\ UNCHANGED retval
    /\ UNCHANGED <<inputs, out, owned, dloc, block_count, ret, i, ops>>

\* a size that ignores the caller's maximum
cap_block_count_ignored(count, max) == count

\* lines 209-210
cap_block_count(count, max) == IF max # 0 THEN Min(count, max) ELSE count

\* lines 212, 232: which device-model branch runs
after_size ==
    IF "ZONED" \in opflags THEN "zone_info"
    ELSE IF "DISCARD" \in opflags THEN "discard_probe"
    ELSE "zero_boot"

\* a size step that goes on with a size of 0
prepare_device_size_unchecked ==
    /\ pc = "size"
    /\ block_count' = cap_block_count(btrfs_device_size(st), max_block_count)
    /\ pc' = after_size
    /\ UNCHANGED retval
    /\ UNCHANGED <<inputs, out, owned, dloc, ret, i, ops>>

\* lines 204-210
prepare_device_size ==
    /\ pc = "size"
    /\ LET size == btrfs_device_size(st)
       IN  IF size = 0
             THEN Return1 /\ UNCHANGED block_count
             ELSE /\ block_count' = cap_block_count(size, max_block_count)
                  /\ pc' = after_size
                  /\ UNCHANGED retval
    /\ UNCHANGED <<inputs, out, owned, dloc, ret, i, ops>>

\* a load of the zone info that tests only the returned status
prepare_get_zone_info_ret_only ==
    /\ pc = "zone_info"
    /\ \E z \in ZoneInfoResults :
          /\ zinfo' = z.zinfo
          /\ zalloc' = IF z.zinfo.model = "NULL" THEN "none" ELSE "live"
          /\ ret' = z.ret
          /\ ops' = Append(ops, Op("get_zone_info", 0, 0, z.ret))
          /\ IF z.ret < 0 /\ z.zinfo.model = "NULL"
               THEN Return1
               ELSE pc' = "reset_all" /\ UNCHANGED retval
    /\ UNCHANGED <<inputs, out, dloc, nfree, block_count, i>>

\* lines 213-218
prepare_get_zone_info ==
    /\ pc = "zone_info"
    /\ \E z \in ZoneInfoResults :
          /\ zinfo' = z.zinfo
          /\ zalloc' = IF z.zinfo.model = "NULL" THEN "none" ELSE "live"
          /\ ret' = z.ret
          /\ ops' = Append(ops, Op("get_zone_info", 0, 0, z.ret))
          /\ IF z.ret < 0 \/ z.zinfo.model = "NULL"
               THEN Return1
               ELSE pc' = "reset_all" /\ UNCHANGED retval
    /\ UNCHANGED <<inputs, out, dloc, nfree, block_count, i>>

\* a reset of all zones whose failure is ignored
prepare_reset_all_zones_ignored ==
    /\ pc = "reset_all"
    /\ \E r \in {0, -1} :
          /\ ops' = Append(ops, Op("reset_all_zones", 0, 0, r))
          /\ pc' = "zero_boot"
    /\ UNCHANGED <<inputs, out, owned, dloc, block_count, ret, i, retval>>

\* lines 227-231
prepare_reset_all_zones ==
    /\ pc = "reset_all"
    /\ \E r \in {0, -1} :
          /\ ops' = Append(ops, Op("reset_all_zones", 0, 0, r))
          /\ pc' = IF r # 0 THEN "err" ELSE "zero_boot"
    /\ UNCHANGED <<inputs, out, owned, dloc, block_count, ret, i, retval>>

\* a discard probe whose failure aborts the preparation
prepare_discard_probe_fatal ==
    /\ pc = "discard_probe"
    /\ \E o \in discard_range(0, 0) :
          /\ ops' = ops \o o.log
          /\ IF o.ret = 0
               THEN /\ d_start' = 0
                    /\ d_len' = block_count
                    /\ pc' = "discard_loop"
               ELSE /\ pc' = "err"
                    /\ UNCHANGED dloc
    /\ UNCHANGED <<inputs, out, owned, block_count, ret, i, retval>>

\* lines 238-243: the zero-length probe, and the call of the bulk discard
prepare_discard_probe ==
    /\ pc = "discard_probe"
    /\ \E o \in discard_range(0, 0) :
          /\ ops' = ops \o o.log
          /\ IF o.ret = 0
               THEN /\ d_start' = 0
                    /\ d_len' = block_count
                    /\ pc' = "discard_loop"
               ELSE /\ pc' = "zero_boot"
                    /\ UNCHANGED dloc
    /\ UNCHANGED <<inputs, out, owned, block_count, ret, i, retval>>

\* a return of device_discard_blocks that loses the chunk's error code
DiscardReturn_zero(r) ==
    IF entry = "prepare"
      THEN pc' = "zero_boot" /\ UNCHANGED retval
      ELSE pc' = "done" /\ retval' = 0

\* where device_discard_blocks returns to, and what the caller keeps of
\* its result: btrfs_prepare_device drops it (line 242)
DiscardReturn(r) ==
    IF entry = "prepare"
      THEN pc' = "zero_boot" /\ UNCHANGED retval
      ELSE pc' = "done" /\ retval' = r

\* device_discard_blocks, lines 57-69: one test of the loop condition and,
\* if it holds, one iteration
discard_loop ==
    /\ pc = "discard_loop"
    /\ IF d_len > 0
         THEN LET chunk == chunk_size(d_len)
              IN  \E o \in discard_range(d_start, chunk) :
                    /\ ops' = ops \o o.log
                    /\ IF o.ret # 0
                         THEN DiscardReturn(o.ret) /\ UNCHANGED dloc
                         ELSE /\ d_len' = d_len - chunk
                              /\ d_start' = d_start + chunk
                              /\ UNCHANGED <<pc, retval>>
         ELSE DiscardReturn(0) /\ UNCHANGED <<dloc, ops>>
    /\ UNCHANGED <<inputs, out, owned, block_count, ret, i>>

\* line 246
prepare_zero_boot ==
    /\ pc = "zero_boot"
    /\ \E o \in zero_dev_clamped(zinfo, 0, ZERO_DEV_BYTES, block_count) :
          /\ ret' = o.ret
          /\ ops' = ops \o o.log
    /\ i' = 0
    /\ pc' = "zero_mirror"
    /\ UNCHANGED <<inputs, out, owned, dloc, block_count, retval>>

\* a mirror loop that goes on after a failed zero-fill
prepare_zero_mirror_noabort ==
    /\ pc = "zero_mirror"
    /\ IF i < BTRFS_SUPER_MIRROR_MAX
         THEN /\ \E o \in zero_dev_clamped(zinfo, btrfs_sb_offset(i),
                                            BTRFS_SUPER_INFO_SIZE, block_count) :
                    /\ ret' = o.ret
                    /\ ops' = ops \o o.log
              /\ i' = i + 1
              /\ UNCHANGED pc
         ELSE /\ pc' = "zero_tail"
              /\ UNCHANGED <<ret, i, ops>>
    /\ UNCHANGED <<inputs, out, owned, dloc, block_count, retval>>

\* lines 247-249: one test of the loop condition and, if it holds, one
\* iteration
prepare_zero_mirror ==
    /\ pc = "zero_mirror"
    /\ IF ret = 0 /\ i < BTRFS_SUPER_MIRROR_MAX
         THEN /\ \E o \in zero_dev_clamped(zinfo, btrfs_sb_offset(i),
                                            BTRFS_SUPER_INFO_SIZE, block_count) :
                    /\ ret' = o.ret
                    /\ ops' = ops \o o.log
              /\ i' = i + 1
              /\ UNCHANGED pc
         ELSE /\ pc' = "zero_tail"
              /\ UNCHANGED <<ret, i, ops>>
    /\ UNCHANGED <<inputs, out, owned, dloc, block_count, retval>>

\* lines 250-252
prepare_zero_tail ==
    /\ pc = "zero_tail"
    /\ IF ret = 0 /\ "ZERO_END" \in opflags
         THEN \E o \in zero_dev_clamped(zinfo, block_count - ZERO_DEV_BYTES,
                                        ZERO_DEV_BYTES, block_count) :
                 /\ ret' = o.ret
                 /\ ops' = ops \o o.log
         ELSE UNCHANGED <<ret, ops>>
    /\ pc' = "check_zero"
    /\ UNCHANGED <<inputs, out, owned, dloc, block_count, i, retval>>

\* a zero-fill status test with the sign slipped
zero_failed_positive(r) == r > 0

\* line 254: the test of the zero-fill status
zero_failed(r) == r < 0

\* lines 254-258
prepare_check_zero ==
    /\ pc = "check_zero"
    /\ pc' = IF zero_failed(ret) THEN "err" ELSE "wipe"
    /\ UNCHANGED <<inputs, out, owned, dloc, block_count, ret, i, retval, ops>>

\* a wiper status test that takes the soft status 1 for a failure
wipe_failed_nonzero(r) == r # 0

\* line 261: the test of the wiper's status
wipe_failed(r) == r < 0

\* a failed wipe that starts the zero-fills over
prepare_wipe_retry ==
    /\ pc = "wipe"
    /\ \E p \in ProbeResults(btrfs_device_size(st)) :
         \E o \in btrfs_wipe_existing_sb(zinfo, p) :
            /\ probe' = p
            /\ ret' = o.ret
            /\ ops' = ops \o o.log
            /\ pc' = IF wipe_failed(o.ret) THEN "zero_boot" ELSE "finish"
    /\ UNCHANGED <<inputs, block_count_ret, bcr_set, owned, dloc, block_count,
                   i, retval>>

\* lines 260-264
prepare_wipe ==
    /\ pc = "wipe"
    /\ \E p \in ProbeResults(btrfs_device_size(st)) :
         \E o \in btrfs_wipe_existing_sb(zinfo, p) :
            /\ probe' = p
            /\ ret' = o.ret
            /\ ops' = ops \o o.log
            /\ pc' = IF wipe_failed(o.ret) THEN "err" ELSE "finish"
    /\ UNCHANGED <<inputs, block_count_ret, bcr_set, owned, dloc, block_count,
                   i, retval>>

\* lines 266-268
prepare_finish ==
    /\ pc = "finish"
    /\ zalloc' = FreeState(zalloc)
    /\ nfree' = FreeCount(zalloc, nfree)
    /\ block_count_ret' = block_count
    /\ bcr_set' = TRUE
    /\ retval' = 0
    /\ pc' = "done"
    /\ UNCHANGED <<inputs, probe, dloc, zinfo, block_count, ret, i, ops>>

\* an error exit that forgets free(zinfo)
prepare_err_nofree ==
    /\ pc = "err"
    /\ retval' = 1
    /\ pc' = "done"
    /\ UNCHANGED <<inputs, out, owned, dloc, block_count, ret, i, ops>>

\* an error exit that hands the size found so far to the caller
prepare_err_writes_count ==
    /\ pc = "err"
    /\ zalloc' = FreeState(zalloc)
    /\ nfree' = FreeCount(zalloc, nfree)
    /\ block_count_ret' = block_count
    /\ retval' = 1
    /\ pc' = "done"
    /\ UNCHANGED <<inputs, bcr_set, probe, dloc, zinfo, block_count, ret, i, ops>>

\* lines 270-272
prepare_err ==
    /\ pc = "err"
    /\ zalloc' = FreeState(zalloc)
    /\ nfree' = FreeCount(zalloc, nfree)
    /\ retval' = 1
    /\ pc' = "done"
    /\ UNCHANGED <<inputs, out, dloc, zinfo, block_count, ret, i, ops>>

\* a direct call of zero_dev_clamped, lines 97-115
call_zero_dev_clamped ==
    /\ pc = "clamp_call"
    /\ \E o \in zero_dev_clamped(zinfo, args.start, args.len, args.dev_size) :
          /\ retval' = o.ret
          /\ ops' = ops \o o.log
    /\ pc' = "done"
    /\ UNCHANGED <<inputs, out, owned, dloc, block_count, ret, i>>

\* a step of the call failed: a short or failed write, a failed
\* allocation of a buffer of len > 0, a failed ioctl, zone operation or
\* probe.  malloc(0) returning NULL is no failure of a step.
StepFailed(o) ==
    \/ o.op \in {"pwrite", "sig_pwrite"} /\ o.res # o.b
    \/ o.op = "device_zero_blocks" /\ o.res = -ENOMEM /\ o.b # 0
    \/ o.op \in {"zero_zone_blocks", "reset_all_zones", "discard"} /\ o.res # 0
    \/ o.op \in {"get_zone_info", "reset_dev_zone"} /\ o.res < 0
    \/ o.op = "wipe" /\ o.res < 0

\* the device can be prepared and no step of the current call failed
CleanRun ==
    /\ st.fstat_ok
    /\ btrfs_device_size(st) # 0
    /\ "ZONED" \in opflags => zalloc # "none"
    /\ \A k \in (first.nops + 1)..Len(ops) : ~StepFailed(ops[k])

\* the caller invokes btrfs_prepare_device again on the same device, with
\* the same arguments, after a call in which no step failed
prepare_again ==
    /\ entry = "prepare"
    /\ pc = "done"
    /\ run = 1
    /\ CleanRun
    /\ run' = 2
    /\ first' = [retval |-> retval, count |-> block_count_ret,
                 nops |-> Len(ops)]
    /\ pc' = "fstat"
    /\ block_count' = 0
    /\ zinfo' = NoZinfo
    /\ zalloc' = "none"
    /\ nfree' = 0
    /\ ret' = 0
    /\ i' = 0
    /\ d_start' = 0
    /\ d_len' = 0
    /\ bcr_set' = FALSE
    /\ retval' = 0
    /\ probe' = NoProbe
    /\ UNCHANGED <<entry, st, max_block_count, opflags, args, block_count_ret,
                   ops>>

Next ==
    \/ prepare_fstat
    \/ prepare_device_size
    \/ prepare_get_zone_info
    \/ prepare_reset_all_zones
    \/ prepare_discard_probe
    \/ discard_loop
    \/ prepare_zero_boot
    \/ prepare_zero_mirror
    \/ prepare_zero_tail
    \/ prepare_check_zero
    \/ prepare_wipe
    \/ prepare_finish
    \/ prepare_err
    \/ call_zero_dev_clamped

Spec == Init /\ [][Next]_vars

\* one call of btrfs_prepare_device and its repetition
InitTwice ==
    /\ InitPrepare
    /\ st \in { Stat(TRUE, "REG", s, FALSE, 0) : s \in {1, 300, 16385, SZ_1G + 100} }
             \cup { Stat(TRUE, "BLK", 0, TRUE, 1000) }
    /\ max_block_count \in {0, 600}

NextTwice ==
    \/ prepare_fstat
    \/ prepare_device_size
    \/ prepare_get_zone_info
    \/ prepare_reset_all_zones
    \/ prepare_discard_probe
    \/ discard_loop
    \/ prepare_zero_boot
    \/ prepare_zero_mirror
    \/ prepare_zero_tail
    \/ prepare_check_zero
    \/ prepare_wipe
    \/ prepare_finish
    \/ prepare_err
    \/ prepare_again

SpecTwice == InitTwice /\ [][NextTwice]_vars

----------------------------------------------------------------------------
(* Reading the log *)

IsZeroCall(o) == o.op \in {"device_zero_blocks", "zero_zone_blocks"}
IsOp(name, o) == o.op = name

Entries(name) == SelectSeq(ops, LAMBDA o : IsOp(name, o))
ZeroCalls == SelectSeq(ops, IsZeroCall)
Has(name) == \E k \in 1..Len(ops) : ops[k].op = name

\* the size of the device behind fd, as fstat / BLKGETSIZE64 report it
DeviceSize == IF st.mode = "REG" THEN st.st_size ELSE st.blk_size

PrepareDone == entry = "prepare" /\ pc = "done"

\* the wiper found a signature and its write or zone reset failed
EraseFailed ==
    \/ \E k \in 1..Len(ops) :
          ops[k].op = "sig_pwrite" /\ ops[k].res # ops[k].b
    \/ \E k \in 1..Len(ops) :
          ops[k].op = "reset_dev_zone" /\ ops[k].res < 0

----------------------------------------------------------------------------
(* C1 *)

----------------------------------------------------------------------------
(* C2 *)

\* C2: the zone info object is never freed twice, and when
\* btrfs_prepare_device has returned, an object that was allocated has been
\* freed exactly once and none is still live; when none was allocated,
\* nothing was freed.
C2_ZoneInfoFreedOnce ==
    /\ nfree <= 1
    /\ PrepareDone =>
          /\ zalloc # "live"
          /\ zalloc = "freed" <=> nfree = 1
          /\ zalloc = "none" <=> nfree = 0
          /\ zalloc = "none" <=> zinfo = NoZinfo

C2_Witness ==
    /\ PrepareDone
    /\ zalloc = "freed"
    /\ nfree = 1
    /\ retval = 1
    /\ Has("reset_all_zones")

----------------------------------------------------------------------------
(* C3 *)

\* C3 as stated: the range [s, e) that zero_dev_clamped passes to the
\* zero-fill or zone-zero primitive satisfies 0 <= s <= e <= dev_size and
\* is the intersection of [start, start + len) with [0, dev_size).
C3_ClampIsIntersection ==
    (entry = "clamp" /\ pc = "done") =>
        LET call == ZeroCalls[Len(ZeroCalls)]
            s == call.a
            e == call.a + call.b
            span == (-3 * MaxOff)..(3 * MaxOff)
        IN  /\ 0 <= s
            /\ s <= e
            /\ e <= args.dev_size
            /\ { x \in span : s <= x /\ x < e }
                 = { x \in span : /\ args.start <= x
                                  /\ x < args.start + args.len
                                  /\ 0 <= x
                                  /\ x < args.dev_size }

----------------------------------------------------------------------------
(* C4 *)

\* C4 as stated: a clamped zero-fill whose range is empty after clamping
\* returns success and issues no write call, whatever malloc(0) returns.
C4_EmptyRangeIsNoOp ==
    entry = "prepare" =>
    \A k \in 1..Len(ops) :
        /\ (IsZeroCall(ops[k]) /\ ops[k].b = 0) => ops[k].res = 0
        /\ ops[k].op = "pwrite" => ops[k].b # 0

----------------------------------------------------------------------------
(* C5 *)

\* the sum of the lengths of the first n entries of s
RECURSIVE SumB(_, _)
SumB(s, n) == IF n = 0 THEN 0 ELSE s[n].b + SumB(s, n - 1)

\* the BLKDISCARD commands of the bulk discard: in btrfs_prepare_device
\* the first discard command is the zero-length probe
Chunks ==
    LET d == Entries("discard")
    IN  IF entry = "prepare" /\ d # <<>> THEN Tail(d) ELSE d

\* the arguments of the call of device_discard_blocks
BulkStart == IF entry = "prepare" THEN 0 ELSE args.start
BulkLen == IF entry = "prepare" THEN block_count ELSE args.len

\* device_discard_blocks was called and has returned
BulkReturned ==
    \/ entry = "discard" /\ pc = "done"
    \/ /\ entry = "prepare"
       /\ pc \notin {"fstat", "size", "discard_probe", "discard_loop"}
       /\ Entries("discard") # <<>>
       /\ Entries("discard")[1].res = 0

ChunksCoverRange ==
    (BulkReturned /\ BulkLen > 0) =>
        LET c == Chunks
            n == Len(c)
        IN  (\A k \in 1..n : c[k].res = 0) =>
              /\ n > 0
              /\ SumB(c, n) = BulkLen
              /\ c[1].a = BulkStart
              /\ \A k \in 1..n :
                    /\ c[k].b > 0
                    /\ c[k].b <= SZ_1G
                    /\ k < n => c[k].b = SZ_1G
                    /\ k < n => c[k + 1].a = c[k].a + c[k].b

\* every pass through the loop either returns or issues one command and
\* strictly decreases the length that is left, which never drops below 0
LoopProgress ==
    (pc = "discard_loop") =>
        \/ pc' # "discard_loop"
        \/ /\ d_len' < d_len
           /\ d_len' >= 0
           /\ Len(ops') = Len(ops) + 1

\* C5: a call device_discard_blocks(fd, start, len) with len > 0 in which no
\* chunk fails terminates (the length left decreases strictly and is
\* bounded below), and the commands it issued sum to len, are each > 0 and
\* <= 1 GiB, all but the last exactly 1 GiB, start at start and follow one
\* another without gap or overlap.
C5_DiscardChunksCover == []ChunksCoverRange /\ [][LoopProgress]_vars

C5_Witness ==
    /\ entry = "discard"
    /\ pc = "done"
    /\ retval = 0
    /\ Len(Chunks) = 3
    /\ Chunks[3].b < SZ_1G
    /\ args.start > 0

----------------------------------------------------------------------------
(* C6 *)

\* the zone info provider was asked and returned an error or no zone info
ZoneInfoLoadFailed ==
    /\ ops # <<>>
    /\ ops[1].op = "get_zone_info"
    /\ (ops[1].res < 0 \/ zinfo = NoZinfo)

\* C6: with ZONED set, when loading the zone info fails, btrfs_prepare_device
\* has returned failure and the device saw no zone reset, no discard, no
\* zero-fill and no signature wipe.
C6_ZoneInfoFailureAborts ==
    ZoneInfoLoadFailed =>
        /\ "ZONED" \in opflags
        /\ pc = "done"
        /\ retval = 1
        /\ ~bcr_set
        /\ Len(ops) = 1

C6_Witness ==
    /\ PrepareDone
    /\ ZoneInfoLoadFailed
    /\ ops[1].res = 0

----------------------------------------------------------------------------
(* C7 *)

\* positions in the log
Positions(name) == { k \in 1..Len(ops) : ops[k].op = name }
ZeroOrWipePositions ==
    { k \in 1..Len(ops) :
        ops[k].op \in {"device_zero_blocks", "zero_zone_blocks", "pwrite",
                       "sig_pwrite", "reset_dev_zone", "fsync", "wipe"} }

\* C7: a failed reset of all zones is the last call on the device and
\* btrfs_prepare_device returns failure; in every zoned run that loaded the
\* zone info, the reset of all zones is invoked exactly once, right after
\* the load and before any zero-fill.
C7_ResetAllFailureAborts ==
    /\ \A k \in Positions("reset_all_zones") :
          ops[k].res # 0 =>
              /\ k = Len(ops)
              /\ pc \in {"err", "done"}
              /\ ~bcr_set
              /\ pc = "done" => retval = 1
    /\ (entry = "prepare" /\ zalloc # "none" /\ pc # "reset_all") =>
          /\ "ZONED" \in opflags
          /\ Positions("reset_all_zones") = {2}
          /\ \A k \in ZeroOrWipePositions : k > 2
    /\ Cardinality(Positions("reset_all_zones")) <= 1

C7_Witness ==
    /\ PrepareDone
    /\ Positions("reset_all_zones") = {2}
    /\ ops[2].res # 0
    /\ retval = 1

----------------------------------------------------------------------------
(* C8 *)

\* the usable size: the device size, cut to the caller's maximum if any
UsableSize ==
    IF max_block_count = 0 THEN DeviceSize
    ELSE IF DeviceSize < max_block_count THEN DeviceSize ELSE max_block_count

\* the part of [from, from + len) that lies inside [0, size)
Inside(from, len, size) ==
    LET lo == IF from > size THEN size ELSE from
        hi == IF from + len > size THEN size ELSE from + len
    IN  [start |-> lo, len |-> hi - lo]

\* the zero-fill requests of a run on a device without zone info whose
\* usable size is size: boot area, the mirrors, and the tail if asked for.
\* It does not depend on DISCARD or on what any discard command returned.
\* (On a device below 2 MiB the tail request starts below 0 and is clamped
\* to the empty range at the end of the device.)
ZeroPlan(size, zero_end) ==
    <<Inside(0, ZERO_DEV_BYTES, size)>>
    \o [m \in 1..BTRFS_SUPER_MIRROR_MAX |->
          Inside(btrfs_sb_offset(m - 1), BTRFS_SUPER_INFO_SIZE, size)]
    \o (IF ~zero_end THEN <<>>
        ELSE IF size >= ZERO_DEV_BYTES
               THEN <<Inside(size - ZERO_DEV_BYTES, ZERO_DEV_BYTES, size)>>
               ELSE <<[start |-> size, len |-> 0]>>)

\* what a finished run without ZONED did and returned is fixed by the
\* device size, max_block_count, ZERO_END and the results of the zero-fill
\* and wipe calls alone
SameAsWithoutDiscard ==
    LET plan == ZeroPlan(UsableSize, "ZERO_END" \in opflags)
        z == ZeroCalls
        n == Len(z)
        w == Entries("wipe")
        zero_ok == n = Len(plan) /\ \A k \in 1..n : z[k].res = 0
    IN  /\ n >= 1
        /\ n <= Len(plan)
        /\ \A k \in 1..n :
              /\ z[k].op = "device_zero_blocks"
              /\ z[k].a = plan[k].start
              /\ z[k].b = plan[k].len
              /\ k < n => z[k].res = 0
        /\ n < Len(plan) => z[n].res # 0
        /\ Len(w) = (IF zero_ok THEN 1 ELSE 0)
        /\ retval = (IF zero_ok /\ w[1].res >= 0 THEN 0 ELSE 1)
        /\ bcr_set <=> retval = 0
        /\ bcr_set => block_count_ret = UsableSize

\* discard commands are issued only with DISCARD set, and a bulk discard
\* command only after a zero-length probe that succeeded
DiscardOnlyAfterProbe ==
    LET d == Entries("discard")
    IN  /\ "DISCARD" \notin opflags => d = <<>>
        /\ "DISCARD" \in opflags =>
              /\ d # <<>>
              /\ d[1].a = 0
              /\ d[1].b = 0
              /\ ops[1] = d[1]
              /\ Len(d) > 1 => d[1].res = 0

\* C8: in a run without ZONED that got past the size check, the return
\* value, the usable block count and the zero-fill and wipe calls are what
\* they are without DISCARD, whatever the probe and the chunks returned; and
\* the bulk discard is issued only if the zero-length probe succeeded.
C8_DiscardNeverChangesResult ==
    (PrepareDone /\ "ZONED" \notin opflags /\ st.fstat_ok
        /\ btrfs_device_size(st) # 0) =>
            SameAsWithoutDiscard /\ DiscardOnlyAfterProbe

C8_Witness ==
    /\ PrepareDone
    /\ opflags = {"DISCARD"}
    /\ st.mode = "REG"
    /\ Entries("discard") = <<Op("discard", 0, 0, EOPNOTSUPP)>>
    /\ retval = 0
    /\ block_count_ret = st.st_size

----------------------------------------------------------------------------
(* C9 *)

\* C9: once a clamped zero-fill of steps 3-5 has returned a status other
\* than 0, no further zero-fill is made, the signature wiper is not invoked,
\* the usable block count is not written, and btrfs_prepare_device returns
\* failure.
C9_ZeroFailureAborts ==
    entry = "prepare" =>
        LET z == ZeroCalls
            n == Len(z)
        IN  \A k \in 1..n :
              z[k].res # 0 =>
                  /\ k = n
                  /\ ~Has("wipe")
                  /\ probe = NoProbe
                  /\ ~bcr_set
                  /\ pc \in {"zero_mirror", "zero_tail", "check_zero", "err", "done"}
                  /\ pc = "done" => retval = 1

C9_Witness ==
    /\ PrepareDone
    /\ Len(ZeroCalls) = 3
    /\ ZeroCalls[3].res = -EIO
    /\ retval = 1

----------------------------------------------------------------------------
(* C10 *)

\* C10: on every successful return the usable block count written is the
\* device size when max_block_count = 0 and min(device size,
\* max_block_count) otherwise; it never exceeds a given maximum and is
\* never 0.
C10_UsableBlockCount ==
    (PrepareDone /\ retval = 0) =>
        /\ bcr_set
        /\ max_block_count = 0 => block_count_ret = DeviceSize
        /\ max_block_count # 0 =>
              /\ block_count_ret \in {DeviceSize, max_block_count}
              /\ block_count_ret <= DeviceSize
              /\ block_count_ret <= max_block_count
        /\ block_count_ret # 0

C10_Witness ==
    /\ PrepareDone
    /\ retval = 0
    /\ max_block_count # 0
    /\ max_block_count < DeviceSize
    /\ block_count_ret = max_block_count

----------------------------------------------------------------------------
(* C11 *)

\* C11: *block_count_ret keeps the caller's value until the one successful
\* exit assigns it, and btrfs_prepare_device returns 0 if and only if it
\* assigned it; every other return is 1.
C11_CountWrittenOnlyOnSuccess ==
    entry = "prepare" =>
        /\ ~bcr_set => block_count_ret = 0
        /\ bcr_set => (pc = "done" /\ retval = 0)
        /\ pc = "done" =>
              /\ retval \in {0, 1}
              /\ retval = 0 <=> bcr_set
              /\ retval = 1 => block_count_ret = 0

C11_Witness ==
    /\ PrepareDone
    /\ retval = 1
    /\ Has("wipe")
    /\ EraseFailed
    /\ block_count # 0
    /\ block_count_ret = 0
    /\ ~bcr_set

----------------------------------------------------------------------------
(* C12 *)

\* C12: every zero-fill or zone-zero request of steps 3-5, and every write
\* it makes, covers only offsets in [0, usable block count), the device
\* size cut to max_block_count.
C12_ZeroFillWithinUsable ==
    entry = "prepare" =>
        LET z == SelectSeq(ops, LAMBDA o : IsZeroCall(o) \/ IsOp("pwrite", o))
            usable == UsableSize
        IN  \A k \in 1..Len(z) :
                /\ 0 <= z[k].a
                /\ 0 <= z[k].b
                /\ z[k].a + z[k].b <= usable
                /\ z[k].a + z[k].b <= block_count

C12_Witness ==
    /\ PrepareDone
    /\ retval = 0
    /\ DeviceSize = 2 * SZ_1G
    /\ max_block_count = SZ_1G
    /\ "ZERO_END" \in opflags
    /\ Len(ZeroCalls) = 5
    /\ ZeroCalls[5].a + ZeroCalls[5].b = SZ_1G
    /\ ZeroCalls[5].b = ZERO_DEV_BYTES

----------------------------------------------------------------------------
(* C13 *)

\* the zero-fill requests of the first and of the repeated call
ZeroRanges(from, to) ==
    LET z == SelectSeq(SubSeq(ops, from, to), IsZeroCall)
    IN  [k \in 1..Len(z) |-> <<z[k].a, z[k].b>>]

\* C13 as stated: when no step fails, btrfs_prepare_device run twice on the
\* same device with the same arguments succeeds both times, returns the
\* same usable block count, and the repeated call zero-fills exactly the
\* regions the first call zero-filled (it writes zeros only, so they stay
\* as the first call left them).
C13_PrepareIdempotent ==
    (entry = "prepare" /\ pc = "done" /\ CleanRun) =>
        /\ retval = 0
        /\ bcr_set
        /\ run = 2 =>
              /\ first.retval = 0
              /\ block_count_ret = first.count
              /\ ZeroRanges(first.nops + 1, Len(ops)) = ZeroRanges(1, first.nops)

\* the same statement for the calls in which malloc(0) returned a buffer
\* whenever it was asked for one
IdempotentUnlessMalloc0Null ==
    (\A k \in 1..Len(ops) :
        ~(ops[k].op = "device_zero_blocks" /\ ops[k].b = 0 /\ ops[k].res # 0))
    => C13_PrepareIdempotent

----------------------------------------------------------------------------
(* C14 *)

\* C14: a failing chunk is the last discard command device_discard_blocks
\* issues, and the call returns that chunk's non-zero error code; it returns
\* 0 only if every chunk succeeded, and for len = 0 it issues no command
\* and returns 0.
C14_DiscardStopsAtFailure ==
    LET c == Chunks
        n == Len(c)
    IN  /\ \A k \in 1..n : c[k].res # 0 => k = n
        /\ (n > 0 /\ c[n].res # 0) => pc # "discard_loop"
        /\ (entry = "discard" /\ pc = "done") =>
              /\ retval = 0 <=> (\A k \in 1..n : c[k].res = 0)
              /\ retval # 0 => (n > 0 /\ retval = c[n].res)
              /\ args.len = 0 => (n = 0 /\ retval = 0)

C14_Witness ==
    /\ entry = "discard"
    /\ pc = "done"
    /\ Len(Chunks) = 2
    /\ Chunks[2].res = EOPNOTSUPP
    /\ retval = EOPNOTSUPP
    /\ args.len > 2 * SZ_1G

----------------------------------------------------------------------------
(* C15 *)

\* the handle is an empty regular file, neither a regular file nor a block
\* device, or a block device whose size query failed or reported 0
SizeUndetermined ==
    \/ st.mode = "REG" /\ st.st_size = 0
    \/ st.mode \notin {"REG", "BLK"}
    \/ st.mode = "BLK" /\ (~st.ioctl_ok \/ st.blk_size = 0)

\* C15: if fstat fails or the device size is 0, btrfs_prepare_device
\* performs no operation on the device (no zone-info load, zone reset,
\* discard, zero-fill or signature wipe), never gets past the size step, and
\* returns 1 without writing the usable block count.
C15_NoDeviceOpWithoutSize ==
    (entry = "prepare" /\ (~st.fstat_ok \/ SizeUndetermined)) =>
        /\ ops = <<>>
        /\ zalloc = "none"
        /\ probe = NoProbe
        /\ pc \in {"fstat", "size", "done"}
        /\ ~st.fstat_ok => pc # "size"
        /\ pc = "done" => (retval = 1 /\ ~bcr_set)

C15_Witness ==
    /\ PrepareDone
    /\ st.fstat_ok
    /\ st.mode = "BLK"
    /\ ~st.ioctl_ok
    /\ opflags = {"ZONED", "DISCARD", "ZERO_END"}
    /\ retval = 1
    /\ ops = <<>>

----------------------------------------------------------------------------
(* C16 *)

\* btrfs_wipe_existing_sb has returned
WipeReturned == Has("wipe")

\* the entry logged right before the return of the wiper is the flush
FlushedBeforeReturn ==
    LET n == Len(ops)
    IN  /\ n >= 2
        /\ ops[n].op = "wipe"
        /\ ops[n - 1].op = "fsync"

\* C16: the wiper flushes the device before returning on every path where
\* it attached to the device: after a successful erase, after a failed
\* erase, and when no signature was found.
C16_FlushOnEveryAttachedPath ==
    (WipeReturned /\ probe.kind \in {"sig", "nosig"}) => FlushedBeforeReturn

\* C16, amended: the wiper flushes the device exactly when it attempted an
\* erase, once, after the erase (successful or failed) and right before
\* returning; when no signature was found, or the probe could not be
\* created or attached, it returns without a flush.
C16_FlushAfterEraseOnly ==
    WipeReturned =>
        LET n == Len(ops)
            f == Positions("fsync")
            e == Positions("sig_pwrite") \cup Positions("reset_dev_zone")
        IN  /\ ops[n].op = "wipe"
            /\ probe.kind = "sig" =>
                  /\ f = {n - 1}
                  /\ e = {n - 2}
            /\ probe.kind # "sig" => (f = {} /\ e = {})

C16_Witness ==
    /\ PrepareDone
    /\ probe.kind = "sig"
    /\ EraseFailed
    /\ FlushedBeforeReturn
    /\ retval = 1

\* the no-signature path has returned, and nothing was flushed
C16_NoSignatureWitness ==
    /\ PrepareDone
    /\ probe.kind = "nosig"
    /\ WipeReturned
    /\ ~Has("fsync")
    /\ retval = 0

----------------------------------------------------------------------------
(* C17 *)

\* btrfs_prepare_device is past line 252
TailStepDone ==
    entry = "prepare" /\ pc \in {"check_zero", "wipe", "finish", "err", "done"}

\* the tail zero-fill as C17 states it, for usable sizes from least on
TailZeroFill(least) ==
    (TailStepDone /\ UsableSize >= least) =>
        LET z == ZeroCalls
            n == Len(z)
        IN  IF /\ "ZERO_END" \in opflags
               /\ n >= 1 + BTRFS_SUPER_MIRROR_MAX
               /\ \A k \in 1..(1 + BTRFS_SUPER_MIRROR_MAX) : z[k].res = 0
              THEN /\ n = 2 + BTRFS_SUPER_MIRROR_MAX
                   /\ z[n].a = Max(0, UsableSize - ZERO_DEV_BYTES)
                   /\ z[n].a + z[n].b = UsableSize
              ELSE n <= 1 + BTRFS_SUPER_MIRROR_MAX

\* C17: with ZERO_END set and the boot-area and all mirror zero-fills
\* successful, the tail step zero-fills exactly [max(0, size - 2 MiB), size),
\* also for sizes below 2 MiB; without ZERO_END, or after a failed
\* zero-fill, no tail zero-fill is attempted.
C17_TailIsFinalRegion == TailZeroFill(0)

\* the same for the devices of at least 2 MiB, where the tail request does
\* not start below 0
TailIsFinalRegionFrom2MiB == TailZeroFill(ZERO_DEV_BYTES)

----------------------------------------------------------------------------
(* C18 *)

\* C18: the zero-fill calls after the boot area are the mirrors 0, 1, 2 in
\* this order, each at most once and each at its own offset (cut to the
\* usable size); a zero-fill is made only if the one before it returned 0,
\* so the mirrors start only after a successful boot-area zero-fill, and
\* after the first failing zero-fill no mirror and no tail follows.
C18_MirrorsInOrder ==
    entry = "prepare" =>
        LET z == ZeroCalls
            n == Len(z)
            usable == UsableSize
        IN  /\ n <= 2 + BTRFS_SUPER_MIRROR_MAX
            /\ i \in 0..BTRFS_SUPER_MIRROR_MAX
            /\ pc = "zero_mirror" => n = 1 + i
            /\ pc = "zero_tail" => n = 1 + i
            /\ \A k \in 2..n : z[k - 1].res = 0
            /\ \A k \in 2..Min(n, 1 + BTRFS_SUPER_MIRROR_MAX) :
                  LET m == Inside(btrfs_sb_offset(k - 2),
                                  BTRFS_SUPER_INFO_SIZE, usable)
                  IN  z[k].a = m.start /\ z[k].b = m.len
            /\ n = 2 + BTRFS_SUPER_MIRROR_MAX => "ZERO_END" \in opflags

C18_Witness ==
    /\ PrepareDone
    /\ DeviceSize = btrfs_sb_offset(2) + 1
    /\ max_block_count = 0
    /\ "ZERO_END" \in opflags
    /\ Len(ZeroCalls) = 3
    /\ ZeroCalls[2].a = btrfs_sb_offset(0)
    /\ ZeroCalls[2].res = 0
    /\ ZeroCalls[3].a = btrfs_sb_offset(1)
    /\ ZeroCalls[3].res = -EIO
    /\ i = 2
    /\ retval = 1

\* all three mirrors are zero-filled at their offsets
C18_AllMirrorsWitness ==
    /\ PrepareDone
    /\ retval = 0
    /\ Len(ZeroCalls) = 1 + BTRFS_SUPER_MIRROR_MAX
    /\ ZeroCalls[4].a = btrfs_sb_offset(2)
    /\ ZeroCalls[4].b = BTRFS_SUPER_INFO_SIZE

----------------------------------------------------------------------------
(* C19 *)

\* the step of btrfs_prepare_device a call on the device belongs to:
\* 1 zone-info load, 2 reset of all zones or discard probe and bulk discard,
\* 3 zero-fills (boot area, mirrors, tail), 4 signature wipe
StepOf(o) ==
    IF o.op = "get_zone_info" THEN 1
    ELSE IF o.op \in {"reset_all_zones", "discard"} THEN 2
    ELSE IF o.op \in {"pwrite", "device_zero_blocks", "zero_zone_blocks"} THEN 3
    ELSE 4

\* the position of btrfs_prepare_device in its sequence of steps
PcRank(p) ==
    CASE p = "fstat" -> 0
      [] p = "size" -> 1
      [] p \in {"zone_info", "discard_probe"} -> 2
      [] p \in {"reset_all", "discard_loop"} -> 3
      [] p = "zero_boot" -> 4
      [] p = "zero_mirror" -> 5
      [] p = "zero_tail" -> 6
      [] p = "check_zero" -> 7
      [] p = "wipe" -> 8
      [] p \in {"finish", "err"} -> 9
      [] OTHER -> 10

\* the calls made so far are in the order of the steps, each step once
StepsInOrder ==
    entry = "prepare" =>
        LET n == Len(ops)
            s == [k \in 1..n |-> StepOf(ops[k])]
            z == ZeroCalls
        IN  /\ \A k \in 1..(n - 1) : s[k] <= s[k + 1]
            /\ n > 0 => (block_count = UsableSize /\ block_count # 0)
            /\ Cardinality(Positions("get_zone_info")) <= 1
            /\ Cardinality(Positions("reset_all_zones")) <= 1
            /\ Cardinality(Positions("wipe")) <= 1
            /\ ~(Has("reset_all_zones") /\ Has("discard"))
            /\ Has("get_zone_info") => "ZONED" \in opflags
            /\ Has("discard") => ("DISCARD" \in opflags /\ "ZONED" \notin opflags)
            /\ Has("reset_all_zones") => Has("get_zone_info")
            /\ Has("wipe") =>
                  /\ Len(z) = 1 + BTRFS_SUPER_MIRROR_MAX
                                + (IF "ZERO_END" \in opflags THEN 1 ELSE 0)
                  /\ \A k \in 1..Len(z) : z[k].res = 0
            /\ bcr_set => (Has("wipe") /\ pc = "done" /\ retval = 0)

\* a step of btrfs_prepare_device moves forward; only the chunk loop of the
\* bulk discard and the mirror loop stay where they are
MovesForward ==
    entry = "prepare" =>
        \/ PcRank(pc') > PcRank(pc)
        \/ pc' = pc /\ pc \in {"discard_loop", "zero_mirror"}
        \/ pc' = pc /\ UNCHANGED vars

\* C19: the calls on the device come in the fixed order size, then zone
\* reset or discard or nothing, then boot-area, mirror and tail zero-fills,
\* then signature wipe, then finalize; no step runs twice or is retried, no
\* earlier step runs after a later one, and the wipe runs only after every
\* zero-fill succeeded.
C19_FixedStepOrder == []StepsInOrder /\ [][MovesForward]_vars

C19_Witness ==
    /\ PrepareDone
    /\ retval = 0
    /\ opflags = {"ZONED", "DISCARD", "ZERO_END"}
    /\ Len(ops) >= 3
    /\ ops[1].op = "get_zone_info"
    /\ ops[2].op = "reset_all_zones"
    /\ IsZeroCall(ops[3]) \/ ops[3].op = "pwrite"
    /\ ops[Len(ops)].op = "wipe"
    /\ probe.kind = "sig"

----------------------------------------------------------------------------
(* C20 *)

\* the signature the probe found lies in a sequential zone
SignatureInSequentialZone ==
    /\ zinfo.model \notin {"NULL", "ZONED_NONE"}
    /\ probe.off \div zinfo.zone_size >= zinfo.seq_from

\* C20: when the probe found a signature the wiper erases it with exactly
\* one operation: a reset of zone offset / zone_size if the offset lies in
\* a sequential zone, otherwise one write of min(signature length, BUFSIZ)
\* zero bytes at the offset. A short or failed write and a failed reset
\* make the wiper return -1 and btrfs_prepare_device return 1 without
\* writing the usable block count; a complete write or successful reset
\* never makes the preparation fail.
C20_OneEraseOperation ==
    (entry = "prepare" /\ WipeReturned /\ probe.kind = "sig") =>
        LET n == Len(ops)
            e == SelectSeq(ops, LAMBDA o : o.op \in {"sig_pwrite", "reset_dev_zone"})
            failed == IF e[1].op = "sig_pwrite" THEN e[1].res # e[1].b
                                                ELSE e[1].res < 0
        IN  /\ Len(e) = 1
            /\ IF SignatureInSequentialZone
                 THEN /\ e[1].op = "reset_dev_zone"
                      /\ e[1].a = probe.off \div zinfo.zone_size
                 ELSE /\ e[1].op = "sig_pwrite"
                      /\ e[1].a = probe.off
                      /\ e[1].b = Min(probe.len, BUFSIZ)
            /\ ops[n].op = "wipe"
            /\ ops[n].res < 0 <=> failed
            /\ failed => (~bcr_set /\ pc \in {"err", "done"})
            /\ pc = "done" =>
                  /\ retval = 1 <=> failed
                  /\ retval = 0 <=> bcr_set
                  /\ retval \in {0, 1}

C20_Witness ==
    /\ PrepareDone
    /\ probe.kind = "sig"
    /\ probe.len > BUFSIZ
    /\ ~SignatureInSequentialZone
    /\ \E k \in 1..Len(ops) :
          /\ ops[k].op = "sig_pwrite"
          /\ ops[k].b = BUFSIZ
          /\ ops[k].res = BUFSIZ - 1
    /\ retval = 1
    /\ ~bcr_set

\* a signature in a sequential zone is erased by a reset of its zone
C20_ZoneResetWitness ==
    /\ PrepareDone
    /\ probe.kind = "sig"
    /\ SignatureInSequentialZone
    /\ probe.off >= zinfo.zone_size
    /\ \E k \in 1..Len(ops) :
          /\ ops[k].op = "reset_dev_zone"
          /\ ops[k].a = 1
          /\ ops[k].res = 0
    /\ retval = 0
    /\ bcr_set

====
